---- MODULE Spec2Model ----
(***************************************************************************)
(* A model of go-storage: the S3 multipart Put (storage_s3.go), the local  *)
(* dual-tree backend (storage_local.go) and the visibility and path        *)
(* handling of the remote backends.  Four specifications share the module: *)
(* SpecS3 runs the multipart engine against a store and a reader that may  *)
(* fail, SpecLocal runs the local backend's operations, SpecRemote runs    *)
(* one remote storage (S3 or OSS) with its visibility calls, and SpecPath  *)
(* passes object paths through each backend's cleaning.                    *)
(***************************************************************************)
EXTENDS Integers, Sequences, FiniteSets, TLC

VARIABLES
    \* ---- S3 multipart Put: the locals of storageS3.Put and the store ----
    s3pc,            \* position of Put: idle | read | upload | abort | complete
    s3key,           \* objectPath of the running (or last) Put
    s3acl,           \* acl computed by getS3ACLOrError
    srcData,         \* the whole content of the source stream
    srcPos,          \* bytes of the source consumed so far
    chunk,           \* buffer[:bytesRead], the part being submitted
    partNumber,      \* partNumber
    completedParts,  \* completedParts
    retry,           \* retry, of uploadMultipart
    pendingErr,      \* the err Put holds while it aborts
    putRet,          \* what the last Put returned (kind "running" meanwhile)
    session,         \* the store's upload session of this Put
    bucket,          \* the store: key -> object
    calls,           \* calls issued for the session: uploads, aborts, completes
    \* ---- local backend: the two trees ----
    goos,            \* runtime.GOOS
    priv,            \* the private tree (baseDir): key -> file
    pub,             \* the public tree (publicBaseDir): key -> link entry
    last,            \* the last operation called and what it returned
    \* ---- the remote backends' single-call operations ----
    backend,         \* which Storage was constructed: "s3" | "oss" | "local"
    oss,             \* the OSS bucket: key -> object
    rlast,           \* the last single-call remote operation and its result
    \* ---- object paths ----
    pathIn,          \* the objectPath a caller passed
    pathOut,         \* the key or file path the backend addressed with it
    \* ---- two Put calls on one key that overlap ----
    proc,            \* each caller's Put: position, arguments, locals, return
    cfile,           \* the object the key names (local: the private file)
    cpub             \* local: the key's entry in the public tree

s3vars == <<s3pc, s3key, s3acl, srcData, srcPos, chunk, partNumber,
            completedParts, retry, pendingErr, putRet, session, bucket, calls>>
localvars == <<goos, priv, pub, last>>
remotevars == <<backend, oss, rlast>>
pathvars == <<pathIn, pathOut>>
concvars == <<proc, cfile, cpub>>
extvars == <<remotevars, pathvars, concvars>>
vars == <<s3vars, localvars, extvars>>

----------------------------------------------------------------------------
(* Bounds and constants *)

\* maximum retry for uploading part
maxRetry == 3
\* the part size (5 MiB in the code), scaled to 2 bytes
s3PartSize == 2
\* longest source stream of an S3 Put
MaxLen == 5
\* longest content of a local file
MaxFileLen == 1

Keys == {"a", "b"}
S3Keys == {"a"}

ObjectPrivate == "private"
ObjectPublicReadWrite == "public-read-write"
ObjectPublicRead == "public-read"
\* a visibility value that is none of the three
BogusVisibility == "bogus"
Visibilities == {ObjectPrivate, ObjectPublicRead, ObjectPublicReadWrite}
AnyVisibility == Visibilities \cup {BogusVisibility}

Min(a, b) == IF a < b THEN a ELSE b

----------------------------------------------------------------------------
(* Errors.  An error value records which call produced it. *)

Err(kind, part, attempt) == [kind |-> kind, part |-> part, attempt |-> attempt]
NoErr == Err("nil", 0, 0)
Running == Err("running", 0, 0)
ErrEOF == Err("EOF", 0, 0)
ErrRead == Err("read", 0, 0)
ErrAbort == Err("abort", 0, 0)
ErrComplete == Err("complete", 0, 0)
ErrCreateUpload == Err("create-upload", 0, 0)
ErrInvalidVisibility == Err("invalid-visibility", 0, 0)
ErrUploadPart(pn, attempt) == Err("upload-part", pn, attempt)

----------------------------------------------------------------------------
(* S3: the ACL translator *)

getS3ACLOrError(visibility) ==
    IF visibility = ObjectPublicRead
    THEN [acl |-> "public-read", err |-> NoErr]
    ELSE IF visibility = ObjectPublicReadWrite
    THEN [acl |-> "public-read-write", err |-> NoErr]
    ELSE IF visibility = ObjectPrivate
    THEN [acl |-> "private", err |-> NoErr]
    ELSE [acl |-> "", err |-> ErrInvalidVisibility]

----------------------------------------------------------------------------
(* S3: the source stream and the store *)

\* A source stream of n bytes; byte i has value i, so that order and
\* truncation show in the content.
Stream(n) == [i \in 1..n |-> i]

\* What one source.Read(buffer) may return, by io.Reader's contract: at most
\* len(buffer) and at most the remaining bytes; io.EOF only once every byte
\* is delivered; 0 bytes with a nil error is permitted; any other error at
\* any point.
ReadOutcomes(remaining) ==
    {[n |-> n, err |-> NoErr] : n \in 0..Min(s3PartSize, remaining)}
    \cup (IF remaining <= s3PartSize
          THEN {[n |-> remaining, err |-> ErrEOF]} ELSE {})
    \cup {[n |-> 0, err |-> ErrEOF] : x \in {r \in {remaining} : r = 0}}
    \cup {[n |-> 0, err |-> ErrRead]}

NoSession == [state |-> "none", parts |-> <<>>, acl |-> ""]
NoObject == [exists |-> FALSE, content |-> <<>>, acl |-> ""]

RECURSIVE ConcatParts(_, _)
\* The object the store assembles from a completion list: the stored parts
\* named by the list, in the list's order.
ConcatParts(parts, list) ==
    IF list = <<>> THEN <<>>
    ELSE parts[Head(list).PartNumber] \o ConcatParts(parts, Tail(list))

\* The store refuses a completion with no part, with a part it does not
\* hold under that tag, or with a part other than the last below the
\* minimum part size.
CompletionAcceptable(sess, list) ==
    /\ sess.state = "open"
    /\ Len(list) >= 1
    /\ \A i \in 1..Len(list) :
          /\ list[i].PartNumber \in DOMAIN sess.parts
          /\ list[i].ETag = sess.parts[list[i].PartNumber]
          /\ (i < Len(list) => Len(sess.parts[list[i].PartNumber]) >= s3PartSize)
          /\ (i > 1 => list[i - 1].PartNumber < list[i].PartNumber)

NoCalls == [abort |-> 0, complete |-> 0, late |-> FALSE, attempts |-> 0, sent |-> <<>>]

----------------------------------------------------------------------------
(* S3: storageS3.Put, one action per call it makes *)

\* Put up to the loop: the ACL translation and CreateMultipartUpload.
\* rlast once a multipart Put is the last call: its state is in the locals
LastIsPut ==
    [op |-> "put", path |-> <<>>, vis |-> "", err |-> NoErr, val |-> "", n |-> 0,
     sent |-> <<>>]

S3PutStart(objectPath, n, visibility, createOk) ==
    /\ s3pc = "idle"
    /\ LET t == getS3ACLOrError(visibility) IN
       /\ s3key' = objectPath
       /\ srcData' = Stream(n)
       /\ srcPos' = 0
       /\ chunk' = <<>>
       /\ partNumber' = 1
       /\ completedParts' = <<>>
       /\ retry' = 0
       /\ pendingErr' = NoErr
       /\ calls' = NoCalls
       /\ s3acl' = t.acl
       /\ IF t.err # NoErr
          THEN /\ putRet' = t.err
               /\ s3pc' = "idle"
               /\ session' = NoSession
          ELSE IF ~createOk
          THEN /\ putRet' = ErrCreateUpload
               /\ s3pc' = "idle"
               /\ session' = NoSession
          ELSE /\ putRet' = Running
               /\ s3pc' = "read"
               /\ session' = [state |-> "open", parts |-> <<>>, acl |-> t.acl]
    /\ rlast' = LastIsPut
    /\ UNCHANGED <<bucket, localvars, backend, oss, pathvars, concvars>>

\* One iteration's source.Read(buffer) and the two tests that follow it.
S3Read(r) ==
    /\ s3pc = "read"
    /\ r \in ReadOutcomes(Len(srcData) - srcPos)
    /\ IF r.err # NoErr /\ r.err # ErrEOF
       THEN /\ s3pc' = "abort"
            /\ pendingErr' = r.err
            /\ UNCHANGED <<srcPos, chunk, retry, calls>>
       ELSE IF r.n <= 0
       THEN /\ s3pc' = "complete"
            /\ UNCHANGED <<srcPos, chunk, retry, pendingErr, calls>>
       ELSE /\ s3pc' = "upload"
            /\ chunk' = SubSeq(srcData, srcPos + 1, srcPos + r.n)
            /\ srcPos' = srcPos + r.n
            /\ retry' = 0
            /\ calls' = [calls EXCEPT !.attempts = 0]
            /\ UNCHANGED pendingErr
    /\ UNCHANGED <<s3key, s3acl, srcData, partNumber, completedParts, putRet,
                   session, bucket, localvars, extvars>>

\* uploadMultipart's result when it gives up: the error of the last attempt.
uploadMultipartGiveUp(pn, n) == ErrUploadPart(pn, n)

\* (mutant) the retry test off by one: a fourth attempt is made
uploadMultipartExhausted_OffByOne(n) == n > maxRetry

\* whether uploadMultipart gives up after `n` failed attempts
uploadMultipartExhausted(n) == n >= maxRetry

\* (mutant) every attempt, also a failed one, takes the next part number
S3UploadPart_NumberPerAttempt(ok) ==
    /\ s3pc = "upload"
    /\ calls' = [calls EXCEPT !.attempts = @ + 1,
                              !.late = @ \/ calls.abort + calls.complete > 0]
    /\ IF ok
       THEN /\ session' = [session EXCEPT
                  !.parts = [p \in (DOMAIN @) \cup {partNumber} |->
                               IF p = partNumber THEN chunk ELSE @[p]]]
            /\ completedParts' =
                  Append(completedParts, [ETag |-> chunk, PartNumber |-> partNumber])
            /\ partNumber' = partNumber + 1
            /\ s3pc' = "read"
            /\ UNCHANGED <<retry, pendingErr>>
       ELSE /\ retry' = retry + 1
            /\ partNumber' = partNumber + 1
            /\ IF uploadMultipartExhausted(retry + 1)
               THEN /\ pendingErr' = uploadMultipartGiveUp(partNumber, retry + 1)
                    /\ s3pc' = "abort"
               ELSE /\ s3pc' = "upload"
                    /\ UNCHANGED pendingErr
            /\ UNCHANGED <<session, completedParts>>
    /\ UNCHANGED <<s3key, s3acl, srcData, srcPos, chunk, putRet, bucket, localvars, extvars>>

\* One service.UploadPart call of uploadMultipart's loop, and, when the loop
\* returns, Put's handling of the result.
S3UploadPart(ok) ==
    /\ s3pc = "upload"
    /\ calls' = [calls EXCEPT !.attempts = @ + 1,
                              !.late = @ \/ calls.abort + calls.complete > 0]
    /\ IF ok
       THEN /\ session' = [session EXCEPT
                  !.parts = [p \in (DOMAIN @) \cup {partNumber} |->
                               IF p = partNumber THEN chunk ELSE @[p]]]
            /\ completedParts' =
                  Append(completedParts, [ETag |-> chunk, PartNumber |-> partNumber])
            /\ partNumber' = partNumber + 1
            /\ s3pc' = "read"
            /\ UNCHANGED <<retry, pendingErr>>
       ELSE /\ retry' = retry + 1
            /\ IF uploadMultipartExhausted(retry + 1)
               THEN /\ pendingErr' = uploadMultipartGiveUp(partNumber, retry + 1)
                    /\ s3pc' = "abort"
               ELSE /\ s3pc' = "upload"
                    /\ UNCHANGED pendingErr
            /\ UNCHANGED <<session, completedParts, partNumber>>
    /\ UNCHANGED <<s3key, s3acl, srcData, srcPos, chunk, putRet, bucket, localvars, extvars>>

\* (mutant) the abort's error is logged and dropped
PutReturnAfterAbort_Swallow(abortErr, cause) == cause

\* (mutant) a failed abort ends the Put with no error
PutReturnAfterAbort_NilOnFailure(abortErr, cause) ==
    IF abortErr # NoErr THEN NoErr ELSE cause

\* What Put returns after abortMultipartUpload: the abort's error when the
\* abort failed, else the error that led to the abort.
PutReturnAfterAbort(abortErr, cause) ==
    IF abortErr # NoErr THEN abortErr ELSE cause

\* abortMultipartUpload and Put's return after it.
S3Abort(ok) ==
    /\ s3pc = "abort"
    /\ calls' = [calls EXCEPT !.abort = @ + 1]
    /\ session' = IF ok THEN [session EXCEPT !.state = "aborted", !.parts = <<>>]
                  ELSE session
    /\ putRet' = PutReturnAfterAbort(IF ok THEN NoErr ELSE ErrAbort, pendingErr)
    /\ s3pc' = "idle"
    /\ UNCHANGED <<s3key, s3acl, srcData, srcPos, chunk, partNumber,
                   completedParts, retry, pendingErr, bucket, localvars, extvars>>

\* (mutant) a failed completion is followed by an abort of the session
S3Complete_ThenAbort(ok) ==
    /\ s3pc = "complete"
    /\ ok => CompletionAcceptable(session, completedParts)
    /\ calls' = [calls EXCEPT !.complete = @ + 1, !.sent = completedParts]
    /\ IF ok
       THEN /\ bucket' = [bucket EXCEPT ![s3key] =
                   [exists |-> TRUE,
                    content |-> ConcatParts(session.parts, completedParts),
                    acl |-> session.acl]]
            /\ session' = [session EXCEPT !.state = "completed"]
            /\ putRet' = NoErr
            /\ s3pc' = "idle"
            /\ UNCHANGED pendingErr
       ELSE /\ pendingErr' = ErrComplete
            /\ s3pc' = "abort"
            /\ UNCHANGED <<bucket, session, putRet>>
    /\ UNCHANGED <<s3key, s3acl, srcData, srcPos, chunk, partNumber,
                   completedParts, retry, localvars, extvars>>

\* CompleteMultipartUpload and Put's return after it.
S3Complete(ok) ==
    /\ s3pc = "complete"
    /\ ok => CompletionAcceptable(session, completedParts)
    /\ calls' = [calls EXCEPT !.complete = @ + 1, !.sent = completedParts]
    /\ IF ok
       THEN /\ bucket' = [bucket EXCEPT ![s3key] =
                   [exists |-> TRUE,
                    content |-> ConcatParts(session.parts, completedParts),
                    acl |-> session.acl]]
            /\ session' = [session EXCEPT !.state = "completed"]
            /\ putRet' = NoErr
       ELSE /\ putRet' = ErrComplete
            /\ UNCHANGED <<bucket, session>>
    /\ s3pc' = "idle"
    /\ UNCHANGED <<s3key, s3acl, srcData, srcPos, chunk, partNumber,
                   completedParts, retry, pendingErr, localvars, extvars>>

----------------------------------------------------------------------------
(* Local backend: files, links and the calls to the operating system *)

\* the contents a file or a source may have
Contents == {Stream(n) : n \in 0..MaxFileLen}

NoFile == [exists |-> FALSE, data |-> <<>>]
File(data) == [exists |-> TRUE, data |-> data]

\* An entry of the public tree.  A symbolic link names the private path; a
\* hard link names the private file itself, and is an orphan once that file
\* has been removed from the private tree.
NoEntry == [exists |-> FALSE, kind |-> "none", orphan |-> FALSE]
Symlink == [exists |-> TRUE, kind |-> "symlink", orphan |-> FALSE]
Hardlink == [exists |-> TRUE, kind |-> "hardlink", orphan |-> FALSE]

\* publicBaseURL, as the test configures it
publicBaseURL == "http://localhost:8000/files"
\* the objectPath "" that URL tests for
EmptyPath == ""

\* The call that fails in one run of an operation ("none": no call fails):
\* the calls of makeObjectPublic, of Put, of Copy and of SetVisibility.
LinkFaults == {"pubmkdir", "remove-pub", "abs", "symlink", "link"}
PutFaults(visibility) ==
    {"none", "mkdir", "create"}
    \cup (IF visibility \in {ObjectPublicRead, ObjectPublicReadWrite}
          THEN LinkFaults ELSE {})
CopyFaults == {"none", "mkdir", "open", "dstmkdir", "create", "write"}
SetVisibilityFaults(visibility) ==
    IF visibility = ObjectPrivate THEN {"none", "remove-pub"}
    ELSE IF visibility \in {ObjectPublicRead, ObjectPublicReadWrite}
    THEN {"none"} \cup LinkFaults
    ELSE {"none"}

\* A source stream: its content, and the offset at which reading it fails
\* before the content is through (NoFail: it does not fail).
NoFail == -1
Sources == UNION {{[data |-> d, failAt |-> n] : n \in {NoFail} \cup (0..Len(d) - 1)} :
                  d \in Contents}

\* io.Copy(file, source): what reaches the file, and the error.
ioCopy(source) ==
    IF source.failAt = NoFail
    THEN [written |-> source.data, err |-> NoErr]
    ELSE [written |-> SubSeq(source.data, 1, source.failAt), err |-> ErrRead]

\* whether the public entry of a key resolves to that key's private file
LinksTo(pv, pb, k) ==
    \/ pb[k].kind = "symlink" /\ pv[k].exists
    \/ pb[k].kind = "hardlink" /\ ~pb[k].orphan /\ pv[k].exists

isFileExists(entry) == entry.exists

\* the error of a failed call to the operating system
OsErr(call) == Err(call, 0, 0)

\* An injected fault is one that happens: the operation reaches the call
\* and returns its error.
FaultFires(fault, err) == fault = "none" \/ err = OsErr(fault)

mkdirIfNotExists(fault, at) == IF fault = at THEN OsErr(at) ELSE NoErr

checkAndCreateParentDirectory(fault, at) == mkdirIfNotExists(fault, at)

\* os.Remove of a private file: a hard link to it in the public tree keeps
\* the file alive, detached from the private path.
osRemovePrivate(pv, pb, k) ==
    [priv |-> [pv EXCEPT ![k] = NoFile],
     pub |-> [pb EXCEPT ![k] = IF @.kind = "hardlink"
                               THEN [@ EXCEPT !.orphan = TRUE] ELSE @]]

\* os.Create: a new empty file, or the existing file truncated.
osCreate(pv, k) == [pv EXCEPT ![k] = File(<<>>)]

\* the link makeObjectPublic creates once the path is free
makeObjectPublicLink(os, pv, pb, k, fault) ==
    IF os = "linux"
    THEN IF fault = "abs"
         THEN [pub |-> pb, err |-> OsErr("abs")]
         ELSE IF fault = "symlink"
         THEN [pub |-> pb, err |-> OsErr("symlink")]
         \* os.Symlink does not look at its target
         ELSE [pub |-> [pb EXCEPT ![k] = Symlink], err |-> NoErr]
    \* os.Link fails when the file to link does not exist
    ELSE IF fault = "link" \/ ~pv[k].exists
         THEN [pub |-> pb, err |-> OsErr("link")]
         ELSE [pub |-> [pb EXCEPT ![k] = Hardlink], err |-> NoErr]

makeObjectPublic(os, pv, pb, objectPath, fault) ==
    IF checkAndCreateParentDirectory(fault, "pubmkdir") # NoErr
    THEN [pub |-> pb, err |-> checkAndCreateParentDirectory(fault, "pubmkdir")]
    ELSE IF isFileExists(pb[objectPath]) /\ fault = "remove-pub"
    THEN [pub |-> pb, err |-> OsErr("remove-pub")]
    ELSE makeObjectPublicLink(os, pv, [pb EXCEPT ![objectPath] = NoEntry],
                              objectPath, fault)

----------------------------------------------------------------------------
(* Local backend: the operations.  Each is one call, start to return. *)

\* The record of a call: the operation, its arguments, the error it
\* returned and its value; `had`, which of the keys it names had a private
\* and a public entry when it was called; `chain` follows the sequence
\* set-visibility(public), set-visibility(private), get-visibility on one
\* existing object.
Call(op, key, key2, vis, err, val, chain) ==
    [op |-> op, key |-> key, key2 |-> key2, vis |-> vis, err |-> err,
     val |-> val, chain |-> chain,
     had |-> [priv |-> {k \in Keys \cap {key, key2} : priv[k].exists},
              pub |-> {k \in Keys \cap {key, key2} : pub[k].exists}]]

IsPublic(visibility) ==
    visibility = ObjectPublicRead \/ visibility = ObjectPublicReadWrite

Chain(op, key, vis, err) ==
    IF op = "set-visibility" /\ IsPublic(vis) /\ err = NoErr /\ priv[key].exists
    THEN 1
    ELSE IF /\ op = "set-visibility" /\ vis = ObjectPrivate /\ err = NoErr
            /\ last.chain = 1 /\ last.key = key
    THEN 2
    ELSE IF op = "get-visibility" /\ last.chain = 2 /\ last.key = key
    THEN 3
    ELSE 0

\* storageLocalFile.Put: the trees it leaves and the error it returns
PutResult(objectPath, source, visibility, fault) ==
    IF checkAndCreateParentDirectory(fault, "mkdir") # NoErr
    THEN [priv |-> priv, pub |-> pub,
          err |-> checkAndCreateParentDirectory(fault, "mkdir")]
    ELSE IF fault = "create"
    THEN [priv |-> priv, pub |-> pub, err |-> OsErr("create")]
    ELSE LET c == ioCopy(source)
             pv == [osCreate(priv, objectPath) EXCEPT ![objectPath] = File(c.written)]
         IN IF IsPublic(visibility)
            THEN LET r == makeObjectPublic(goos, pv, pub, objectPath, fault)
                 IN [priv |-> pv, pub |-> r.pub, err |-> r.err]
            ELSE [priv |-> pv, pub |-> pub, err |-> c.err]

Put(objectPath, source, visibility, fault) ==
    LET r == PutResult(objectPath, source, visibility, fault) IN
    /\ FaultFires(fault, r.err)
    /\ priv' = r.priv
    /\ pub' = r.pub
    /\ last' = Call("put", objectPath, "", visibility, r.err,
                    source.failAt # NoFail,
                    Chain("put", objectPath, visibility, r.err))
    /\ UNCHANGED <<goos, s3vars, extvars>>

RECURSIVE deleteLoop(_, _, _, _, _)
\* Delete's loop from the i-th path on; `fault` is <<i, call>>, the call
\* that fails at the i-th path.
deleteLoop(pv, pb, objectPaths, i, fault) ==
    IF i > Len(objectPaths)
    THEN [priv |-> pv, pub |-> pb, err |-> NoErr]
    ELSE LET k == objectPaths[i] IN
         IF isFileExists(pb[k]) /\ fault = <<i, "remove-pub">>
         THEN [priv |-> pv, pub |-> pb, err |-> Err("remove-pub", i, 0)]
         ELSE LET pb1 == IF isFileExists(pb[k]) THEN [pb EXCEPT ![k] = NoEntry] ELSE pb
              IN IF isFileExists(pv[k]) /\ fault = <<i, "remove-priv">>
                 THEN [priv |-> pv, pub |-> pb1, err |-> Err("remove-priv", i, 0)]
                 ELSE IF isFileExists(pv[k])
                 THEN LET t == osRemovePrivate(pv, pb1, k)
                      IN deleteLoop(t.priv, t.pub, objectPaths, i + 1, fault)
                 ELSE deleteLoop(pv, pb1, objectPaths, i + 1, fault)

InPaths(k, objectPaths) == \E i \in 1..Len(objectPaths) : objectPaths[i] = k

\* (mutant) Delete that stops after its first path
DeleteResult_FirstOnly(objectPaths, fault) ==
    deleteLoop(priv, pub, SubSeq(objectPaths, 1, Min(1, Len(objectPaths))), 1, fault)

DeleteResult(objectPaths, fault) == deleteLoop(priv, pub, objectPaths, 1, fault)

Delete(objectPaths, fault) ==
    LET r == DeleteResult(objectPaths, fault) IN
    /\ fault[1] = 0 \/ r.err = Err(fault[2], fault[1], 0)
    /\ priv' = r.priv
    /\ pub' = r.pub
    /\ last' = [Call("delete", "", "", "", r.err, objectPaths, 0) EXCEPT
                  !.had = [priv |-> {k \in Keys : priv[k].exists /\ InPaths(k, objectPaths)},
                           pub |-> {k \in Keys : pub[k].exists /\ InPaths(k, objectPaths)}]]
    /\ UNCHANGED <<goos, s3vars, extvars>>

\* storageLocalFile.Copy; `m` is how many bytes reach the destination when
\* the copy fails on the way.
CopyResult(srcObjectPath, dstObjectPath, fault, m) ==
    IF checkAndCreateParentDirectory(fault, "mkdir") # NoErr
    THEN [priv |-> priv, err |-> checkAndCreateParentDirectory(fault, "mkdir")]
    ELSE IF fault = "open" \/ ~priv[srcObjectPath].exists
    THEN [priv |-> priv, err |-> OsErr("open")]
    ELSE IF checkAndCreateParentDirectory(fault, "dstmkdir") # NoErr
    THEN [priv |-> priv, err |-> checkAndCreateParentDirectory(fault, "dstmkdir")]
    ELSE IF fault = "create"
    THEN [priv |-> priv, err |-> OsErr("create")]
    ELSE LET pv == osCreate(priv, dstObjectPath)
             \* the source is read after the destination was created
             data == pv[srcObjectPath].data
         IN IF fault = "write"
            THEN [priv |-> [pv EXCEPT ![dstObjectPath] =
                               File(SubSeq(data, 1, Min(m, Len(data))))],
                  err |-> OsErr("write")]
            ELSE [priv |-> [pv EXCEPT ![dstObjectPath] = File(data)],
                  err |-> NoErr]

Copy(srcObjectPath, dstObjectPath, fault, m) ==
    LET r == CopyResult(srcObjectPath, dstObjectPath, fault, m) IN
    /\ FaultFires(fault, r.err)
    /\ fault = "write" \/ m = 0
    /\ priv' = r.priv
    /\ last' = Call("copy", srcObjectPath, dstObjectPath, "", r.err,
                    priv[srcObjectPath], 0)
    /\ UNCHANGED <<goos, pub, s3vars, extvars>>

\* path.Join(u.Path, objectPath) on the parsed publicBaseURL
JoinURL(base, objectPath) == <<base, "/", objectPath>>

\* (mutant) URL without the test for the public entry
URLResult_NoCheck(objectPath) ==
    IF objectPath = EmptyPath
    THEN [val |-> <<>>, err |-> NoErr]
    ELSE [val |-> JoinURL(publicBaseURL, objectPath), err |-> NoErr]

URLResult(objectPath) ==
    IF objectPath = EmptyPath
    THEN [val |-> <<>>, err |-> NoErr]
    ELSE IF ~isFileExists(pub[objectPath])
    THEN [val |-> <<>>, err |-> Err("not-found", 0, 0)]
    ELSE [val |-> JoinURL(publicBaseURL, objectPath), err |-> NoErr]

URL(objectPath) ==
    LET r == URLResult(objectPath) IN
    /\ last' = Call("url", objectPath, "", "", r.err, r.val, 0)
    /\ UNCHANGED <<goos, priv, pub, s3vars, extvars>>

\* (mutant) Exist answers for the public tree
ExistResult_PublicTree(objectPath) ==
    [val |-> pub[objectPath].exists, err |-> NoErr]

ExistResult(objectPath) ==
    IF ~priv[objectPath].exists
    \* os.IsNotExist(err)
    THEN [val |-> FALSE, err |-> NoErr]
    \* !info.IsDir(): an entry of the tree is a file
    ELSE [val |-> TRUE, err |-> NoErr]

Exist(objectPath) ==
    LET r == ExistResult(objectPath) IN
    /\ last' = Call("exist", objectPath, "", "", r.err, r.val, 0)
    /\ UNCHANGED <<goos, priv, pub, s3vars, extvars>>

\* storageLocalFile.Size: os.Stat of the private file
SizeResult(objectPath) ==
    IF ~priv[objectPath].exists
    THEN [val |-> 0, err |-> OsErr("stat")]
    ELSE [val |-> Len(priv[objectPath].data), err |-> NoErr]

Size(objectPath) ==
    LET r == SizeResult(objectPath) IN
    /\ last' = Call("size", objectPath, "", "", r.err, r.val, 0)
    /\ UNCHANGED <<goos, priv, pub, s3vars, extvars>>

ReadResult(objectPath) ==
    IF ~priv[objectPath].exists
    THEN [val |-> <<>>, err |-> OsErr("open")]
    ELSE [val |-> priv[objectPath].data, err |-> NoErr]

Read(objectPath) ==
    LET r == ReadResult(objectPath) IN
    /\ last' = Call("read", objectPath, "", "", r.err, r.val, 0)
    /\ UNCHANGED <<goos, priv, pub, s3vars, extvars>>

\* (mutant) set-visibility(private) that leaves the public entry in place
SetVisibilityResult_KeepLink(objectPath, visibility, fault) ==
    IF visibility = ObjectPrivate
    THEN [pub |-> pub, err |-> NoErr]
    ELSE IF IsPublic(visibility)
    THEN IF ~isFileExists(pub[objectPath])
         THEN makeObjectPublic(goos, priv, pub, objectPath, fault)
         ELSE [pub |-> pub, err |-> NoErr]
    ELSE [pub |-> pub, err |-> ErrInvalidVisibility]

SetVisibilityResult(objectPath, visibility, fault) ==
    IF visibility = ObjectPrivate
    THEN IF isFileExists(pub[objectPath])
         THEN IF fault = "remove-pub"
              THEN [pub |-> pub, err |-> OsErr("remove-pub")]
              ELSE [pub |-> [pub EXCEPT ![objectPath] = NoEntry], err |-> NoErr]
         ELSE [pub |-> pub, err |-> NoErr]
    ELSE IF IsPublic(visibility)
    THEN IF ~isFileExists(pub[objectPath])
         THEN makeObjectPublic(goos, priv, pub, objectPath, fault)
         ELSE [pub |-> pub, err |-> NoErr]
    ELSE [pub |-> pub, err |-> ErrInvalidVisibility]

\* (mutant) a removal of the public entry that takes the linked file along
SetVisibility_ThroughLink(objectPath, visibility, fault) ==
    LET r == SetVisibilityResult(objectPath, visibility, fault) IN
    /\ FaultFires(fault, r.err)
    /\ pub' = r.pub
    /\ priv' = IF visibility = ObjectPrivate /\ pub[objectPath].exists /\ r.err = NoErr
               THEN [priv EXCEPT ![objectPath] = NoFile]
               ELSE priv
    /\ last' = Call("set-visibility", objectPath, "", visibility, r.err, 0,
                    Chain("set-visibility", objectPath, visibility, r.err))
    /\ UNCHANGED <<goos, s3vars, extvars>>

SetVisibility(objectPath, visibility, fault) ==
    LET r == SetVisibilityResult(objectPath, visibility, fault) IN
    /\ FaultFires(fault, r.err)
    /\ pub' = r.pub
    /\ last' = Call("set-visibility", objectPath, "", visibility, r.err, 0,
                    Chain("set-visibility", objectPath, visibility, r.err))
    /\ UNCHANGED <<goos, priv, s3vars, extvars>>

\* (mutant) GetVisibility that looks at the private tree first
GetVisibilityResult_PrivateFirst(objectPath) ==
    IF isFileExists(priv[objectPath])
    THEN [val |-> ObjectPrivate, err |-> NoErr]
    ELSE IF isFileExists(pub[objectPath])
    THEN [val |-> ObjectPublicRead, err |-> NoErr]
    ELSE [val |-> "", err |-> Err("not-found", 0, 0)]

GetVisibilityResult(objectPath) ==
    IF isFileExists(pub[objectPath])
    THEN [val |-> ObjectPublicRead, err |-> NoErr]
    ELSE IF isFileExists(priv[objectPath])
    THEN [val |-> ObjectPrivate, err |-> NoErr]
    ELSE [val |-> "", err |-> Err("not-found", 0, 0)]

GetVisibility(objectPath) ==
    LET r == GetVisibilityResult(objectPath) IN
    /\ last' = Call("get-visibility", objectPath, "", "", r.err, r.val,
                    Chain("get-visibility", objectPath, "", r.err))
    /\ UNCHANGED <<goos, priv, pub, s3vars, extvars>>

----------------------------------------------------------------------------
(* Object paths: how each backend turns a caller's objectPath into the key  *)
(* or file path it addresses.  A path is the sequence of its characters.    *)

\* the longest objectPath tried
MaxPathLen == 4

PathChars == {"a", ".", "/", "\\"}

RECURSIVE PathsOfLen(_)
PathsOfLen(n) ==
    IF n = 0 THEN {<<>>}
    ELSE {Append(p, c) : p \in PathsOfLen(n - 1), c \in PathChars}

\* relative object paths, as a caller supplies them
RelPaths ==
    {p \in UNION {PathsOfLen(n) : n \in 0..MaxPathLen} :
        p = <<>> \/ p[1] \notin {"/", "\\"}}

\* baseDir of the local storage
baseDir == <<"/", "r">>

\* filepath.ToSlash: replaces filepath.Separator by a slash, which changes
\* something only where the separator is a backslash
filepathToSlash(os, path) ==
    [i \in 1..Len(path) |->
        IF os = "windows" /\ path[i] = "\\" THEN "/" ELSE path[i]]

\* path.Clean, ".." case: drop the last element of out, down to dotdot
RECURSIVE cleanBacktrack(_, _, _)
cleanBacktrack(out, w, dotdot) ==
    IF w > dotdot /\ out[w + 1] # "/"
    THEN cleanBacktrack(out, w - 1, dotdot)
    ELSE SubSeq(out, 1, w)

\* path.Clean, default case: the end of the element that starts at r
RECURSIVE cleanElementEnd(_, _)
cleanElementEnd(path, r) ==
    IF r <= Len(path) /\ path[r] # "/" THEN cleanElementEnd(path, r + 1) ELSE r

\* path.Clean, the loop over the characters of path (r is the next to read)
RECURSIVE cleanLoop(_, _, _, _, _)
cleanLoop(path, rooted, r, out, dotdot) ==
    LET n == Len(path) IN
    IF r > n THEN out
    ELSE IF path[r] = "/"
    THEN cleanLoop(path, rooted, r + 1, out, dotdot)
    ELSE IF path[r] = "." /\ (r = n \/ path[r + 1] = "/")
    THEN cleanLoop(path, rooted, r + 1, out, dotdot)
    ELSE IF path[r] = "." /\ path[r + 1] = "." /\ (r + 1 = n \/ path[r + 2] = "/")
    THEN IF Len(out) > dotdot
         THEN cleanLoop(path, rooted, r + 2,
                        cleanBacktrack(out, Len(out) - 1, dotdot), dotdot)
         ELSE IF ~rooted
         THEN LET out2 == (IF Len(out) > 0 THEN Append(out, "/") ELSE out)
                              \o <<".", ".">>
              IN  cleanLoop(path, rooted, r + 2, out2, Len(out2))
         ELSE cleanLoop(path, rooted, r + 2, out, dotdot)
    ELSE LET out2 == IF (rooted /\ Len(out) # 1) \/ (~rooted /\ Len(out) # 0)
                     THEN Append(out, "/") ELSE out
             e == cleanElementEnd(path, r)
         IN  cleanLoop(path, rooted, e, out2 \o SubSeq(path, r, e - 1), dotdot)

\* path.Clean
pathClean(path) ==
    IF path = <<>> THEN <<".">>
    ELSE LET rooted == path[1] = "/"
             out == IF rooted
                    THEN cleanLoop(path, TRUE, 2, <<"/">>, 1)
                    ELSE cleanLoop(path, FALSE, 1, <<>>, 0)
         IN  IF out = <<>> THEN <<".">> ELSE out

cleanS3ObjectPath(os, objectPath) == pathClean(filepathToSlash(os, objectPath))

cleanOSSObjectPath(os, objectPath) == pathClean(filepathToSlash(os, objectPath))

\* filepath.Join(s.baseDir, objectPath): the non-empty elements joined by the
\* separator and cleaned.  Both separators divide elements on windows; the
\* result is written here with slashes on either system.
filepathJoin(os, dir, objectPath) ==
    IF objectPath = <<>>
    THEN pathClean(filepathToSlash(os, dir))
    ELSE pathClean(filepathToSlash(os, dir \o <<"/">> \o objectPath))

NoPath == [fn |-> "none", at |-> <<>>]

\* a remote backend cleans the objectPath of a call into the key it sends
S3CleanPath(objectPath) ==
    /\ pathIn' = objectPath
    /\ pathOut' = [fn |-> "cleanS3ObjectPath", at |-> cleanS3ObjectPath(goos, objectPath)]
    /\ UNCHANGED <<s3vars, localvars, remotevars, concvars>>

OSSCleanPath(objectPath) ==
    /\ pathIn' = objectPath
    /\ pathOut' = [fn |-> "cleanOSSObjectPath", at |-> cleanOSSObjectPath(goos, objectPath)]
    /\ UNCHANGED <<s3vars, localvars, remotevars, concvars>>

\* the local backend joins the objectPath of a call to its base directory
LocalJoinPath(objectPath) ==
    /\ pathIn' = objectPath
    /\ pathOut' = [fn |-> "filepath.Join", at |-> filepathJoin(goos, baseDir, objectPath)]
    /\ UNCHANGED <<s3vars, localvars, remotevars, concvars>>

InitPath ==
    /\ pathIn = <<>>
    /\ pathOut = NoPath

NextPath ==
    \/ \E p \in RelPaths : S3CleanPath(p)
    \/ \E p \in RelPaths : OSSCleanPath(p)
    \/ \E p \in RelPaths : LocalJoinPath(p)

----------------------------------------------------------------------------
(* The remote backends' operations that are one call to the store: S3 and  *)
(* OSS SetVisibility and GetVisibility, and the OSS Put.                    *)

\* the objectPaths tried: a key of the bucket, plain and with a "./" prefix
RemotePaths == {<<k>> : k \in S3Keys} \cup {<<".", "/", k>> : k \in S3Keys}

\* the bucket's key a sent key names, "" when the bucket has no such key
StoreKey(key) ==
    IF \E k \in S3Keys : key = <<k>>
    THEN CHOOSE k \in S3Keys : key = <<k>>
    ELSE ""

ErrStore(call) == Err(call, 0, 0)
ErrNoSuchKey == Err("NoSuchKey", 0, 0)
ErrInvalidACL == Err("invalid returned ACL value", 0, 0)

\* op, its arguments, its results and the number of calls it made to the store
RCall(op, path, vis, err, val, n, sent) ==
    [op |-> op, path |-> path, vis |-> vis, err |-> err, val |-> val, n |-> n,
     sent |-> sent]

AllUsers == "http://acs.amazonaws.com/groups/global/AllUsers"
Owner == "owner"

\* output.Grants of GetObjectAcl for an object that carries a canned ACL
S3Grants(acl) ==
    {[grantee |-> Owner, permission |-> "FULL_CONTROL"]}
       \cup (IF acl \in {"public-read", "public-read-write"}
             THEN {[grantee |-> AllUsers, permission |-> "READ"]} ELSE {})
       \cup (IF acl = "public-read-write"
             THEN {[grantee |-> AllUsers, permission |-> "WRITE"]} ELSE {})

\* storageS3.SetVisibility: the acl the bucket's object gets, and the return
\* the locals of the last Put are gone once another method is called
PutLocalsGone ==
    /\ s3pc' = "idle"
    /\ s3key' = s3key
    /\ s3acl' = ""
    /\ srcData' = <<>>
    /\ srcPos' = 0
    /\ chunk' = <<>>
    /\ partNumber' = 1
    /\ completedParts' = <<>>
    /\ retry' = 0
    /\ pendingErr' = NoErr
    /\ putRet' = NoErr
    /\ session' = NoSession
    /\ calls' = NoCalls

S3SetVisibilityResult(objectPath, visibility, ok) ==
    LET key == StoreKey(cleanS3ObjectPath(goos, objectPath))
        t == getS3ACLOrError(visibility)
    IN  IF t.err # NoErr
        THEN [bucket |-> bucket, err |-> t.err, n |-> 0]
        ELSE IF ~ok
        THEN [bucket |-> bucket, err |-> ErrStore("PutObjectAcl"), n |-> 1]
        ELSE IF key \notin S3Keys \/ ~bucket[key].exists
        THEN [bucket |-> bucket, err |-> ErrNoSuchKey, n |-> 1]
        ELSE [bucket |-> [bucket EXCEPT ![key].acl = t.acl], err |-> NoErr, n |-> 1]

S3SetVisibility(objectPath, visibility, ok) ==
    /\ s3pc = "idle"
    /\ LET r == S3SetVisibilityResult(objectPath, visibility, ok) IN
       /\ bucket' = r.bucket
       /\ rlast' = RCall("set-visibility", objectPath, visibility, r.err, "", r.n,
                         IF r.n = 0 THEN <<>>
                         ELSE <<cleanS3ObjectPath(goos, objectPath)>>)
    /\ PutLocalsGone
    /\ UNCHANGED <<localvars, backend, oss, pathvars, concvars>>

\* storageS3.GetVisibility: the key is sent as it was passed
S3GetVisibilityResult(objectPath, ok) ==
    LET key == StoreKey(objectPath) IN
    IF ~ok
    THEN [val |-> "", err |-> ErrStore("GetObjectAcl")]
    ELSE IF key \notin S3Keys \/ ~bucket[key].exists
    THEN [val |-> "", err |-> ErrNoSuchKey]
    ELSE LET grants == S3Grants(bucket[key].acl)
             hasRead == [grantee |-> AllUsers, permission |-> "READ"] \in grants
             hasWrite == [grantee |-> AllUsers, permission |-> "WRITE"] \in grants
         IN  IF hasRead /\ hasWrite
             THEN [val |-> ObjectPublicReadWrite, err |-> NoErr]
             ELSE IF hasRead
             THEN [val |-> ObjectPublicRead, err |-> NoErr]
             ELSE [val |-> "", err |-> NoErr]

S3GetVisibility(objectPath, ok) ==
    /\ s3pc = "idle"
    /\ LET r == S3GetVisibilityResult(objectPath, ok) IN
       rlast' = RCall("get-visibility", objectPath, "", r.err, r.val, 1,
                      <<objectPath>>)
    /\ PutLocalsGone
    /\ UNCHANGED <<bucket, localvars, backend, oss, pathvars, concvars>>

\* an OSS object: its ACL is one of the three, or "default" (the bucket's)
OSSObject(acl) == [exists |-> TRUE, acl |-> acl]
NoOSSObject == [exists |-> FALSE, acl |-> ""]

\* (mutant) an unknown visibility is taken for private
getACLOSSOrError_DefaultPrivate(visibility) ==
    IF visibility = ObjectPublicRead
    THEN [acl |-> "public-read", err |-> NoErr]
    ELSE IF visibility = ObjectPublicReadWrite
    THEN [acl |-> "public-read-write", err |-> NoErr]
    ELSE [acl |-> "private", err |-> NoErr]

getACLOSSOrError(visibility) ==
    IF visibility = ObjectPublicRead
    THEN [acl |-> "public-read", err |-> NoErr]
    ELSE IF visibility = ObjectPublicReadWrite
    THEN [acl |-> "public-read-write", err |-> NoErr]
    ELSE IF visibility = ObjectPrivate
    THEN [acl |-> "private", err |-> NoErr]
    ELSE [acl |-> "", err |-> ErrInvalidVisibility]

\* storageAlibabaOSS.Put: PutObject reads the source and stores the object
OSSPutResult(objectPath, visibility, ok) ==
    LET key == StoreKey(cleanOSSObjectPath(goos, objectPath))
        t == getACLOSSOrError(visibility)
    IN  IF t.err # NoErr
        THEN [oss |-> oss, err |-> t.err, n |-> 0]
        ELSE IF ~ok \/ key \notin S3Keys
        THEN [oss |-> oss, err |-> ErrStore("PutObject"), n |-> 1]
        ELSE [oss |-> [oss EXCEPT ![key] = OSSObject(t.acl)], err |-> NoErr, n |-> 1]

OSSPut(objectPath, visibility, ok) ==
    /\ LET r == OSSPutResult(objectPath, visibility, ok) IN
       /\ oss' = r.oss
       /\ rlast' = RCall("put", objectPath, visibility, r.err, "", r.n,
                         IF r.n = 0 THEN <<>>
                         ELSE <<cleanOSSObjectPath(goos, objectPath)>>)
    /\ UNCHANGED <<s3vars, localvars, backend, pathvars, concvars>>

\* storageAlibabaOSS.SetVisibility
OSSSetVisibilityResult(objectPath, visibility, ok) ==
    LET key == StoreKey(cleanOSSObjectPath(goos, objectPath))
        t == getACLOSSOrError(visibility)
    IN  IF t.err # NoErr
        THEN [oss |-> oss, err |-> t.err, n |-> 0]
        ELSE IF ~ok
        THEN [oss |-> oss, err |-> ErrStore("SetObjectACL"), n |-> 1]
        ELSE IF key \notin S3Keys \/ ~oss[key].exists
        THEN [oss |-> oss, err |-> ErrNoSuchKey, n |-> 1]
        ELSE [oss |-> [oss EXCEPT ![key].acl = t.acl], err |-> NoErr, n |-> 1]

OSSSetVisibility(objectPath, visibility, ok) ==
    /\ LET r == OSSSetVisibilityResult(objectPath, visibility, ok) IN
       /\ oss' = r.oss
       /\ rlast' = RCall("set-visibility", objectPath, visibility, r.err, "", r.n,
                         IF r.n = 0 THEN <<>>
                         ELSE <<cleanOSSObjectPath(goos, objectPath)>>)
    /\ UNCHANGED <<s3vars, localvars, backend, pathvars, concvars>>

\* storageAlibabaOSS.GetVisibility
OSSGetVisibilityResult(objectPath, ok) ==
    LET key == StoreKey(cleanOSSObjectPath(goos, objectPath)) IN
    IF ~ok
    THEN [val |-> "", err |-> ErrStore("GetObjectACL")]
    ELSE IF key \notin S3Keys \/ ~oss[key].exists
    THEN [val |-> "", err |-> ErrNoSuchKey]
    ELSE LET aclType == oss[key].acl IN
         IF aclType = "private"
         THEN [val |-> ObjectPrivate, err |-> NoErr]
         ELSE IF aclType = "public-read"
         THEN [val |-> ObjectPublicRead, err |-> NoErr]
         ELSE IF aclType = "public-read-write"
         THEN [val |-> ObjectPublicReadWrite, err |-> NoErr]
         ELSE [val |-> "", err |-> ErrInvalidACL]

OSSGetVisibility(objectPath, ok) ==
    /\ LET r == OSSGetVisibilityResult(objectPath, ok) IN
       rlast' = RCall("get-visibility", objectPath, "", r.err, r.val, 1,
                      <<cleanOSSObjectPath(goos, objectPath)>>)
    /\ UNCHANGED <<s3vars, localvars, backend, oss, pathvars, concvars>>

----------------------------------------------------------------------------
(* The remote backends' Read, TemporaryURL and Delete: which key each sends *)
(* to the store for the objectPath it was given.                            *)

\* the argument lists of a remote Delete: no path, one path, two paths
RemoteDeleteArgs ==
    {<<>>} \cup {<<p>> : p \in RemotePaths} \cup {<<p, q>> : p, q \in RemotePaths}

\* the keys of a DeleteObject(s) request that name an object of the bucket
KeysNamed(keys) == {StoreKey(keys[i]) : i \in 1..Len(keys)} \cap S3Keys

\* storageS3.Read
S3ReadResult(objectPath, ok) ==
    LET key == StoreKey(cleanS3ObjectPath(goos, objectPath)) IN
    IF ~ok
    THEN [val |-> <<>>, err |-> ErrStore("GetObject")]
    ELSE IF key \notin S3Keys \/ ~bucket[key].exists
    THEN [val |-> <<>>, err |-> ErrNoSuchKey]
    ELSE [val |-> bucket[key].content, err |-> NoErr]

S3ReadObject(objectPath, ok) ==
    /\ s3pc = "idle"
    /\ LET r == S3ReadResult(objectPath, ok) IN
       rlast' = RCall("read", objectPath, "", r.err, r.val, 1,
                      <<cleanS3ObjectPath(goos, objectPath)>>)
    /\ PutLocalsGone
    /\ UNCHANGED <<bucket, localvars, backend, oss, pathvars, concvars>>

\* storageS3.TemporaryURL: the request that is presigned carries objectPath
\* as it was passed; presigning makes no call to the store
S3TemporaryURLResult(objectPath) ==
    [val |-> <<"presigned", objectPath>>, err |-> NoErr]

S3TemporaryURL(objectPath) ==
    /\ s3pc = "idle"
    /\ LET r == S3TemporaryURLResult(objectPath) IN
       rlast' = RCall("temporary-url", objectPath, "", r.err, r.val, 0,
                      <<objectPath>>)
    /\ PutLocalsGone
    /\ UNCHANGED <<bucket, localvars, backend, oss, pathvars, concvars>>

\* storageS3.Delete: the keys of the request, each cleaned
S3DeleteKeys(objectPaths) ==
    [i \in 1..Len(objectPaths) |-> cleanS3ObjectPath(goos, objectPaths[i])]

\* storageS3.Delete on a bucket b; a key the bucket does not hold is no error
S3DeleteResult(b, objectPaths, ok) ==
    IF Len(objectPaths) = 0
    THEN [bucket |-> b, err |-> NoErr, n |-> 0]
    ELSE IF ~ok
    THEN [bucket |-> b,
          err |-> ErrStore(IF Len(objectPaths) = 1 THEN "DeleteObject" ELSE "DeleteObjects"),
          n |-> 1]
    ELSE [bucket |-> [k \in S3Keys |->
                        IF k \in KeysNamed(S3DeleteKeys(objectPaths))
                        THEN NoObject ELSE b[k]],
          err |-> NoErr, n |-> 1]

S3Delete(objectPaths, ok) ==
    /\ s3pc = "idle"
    /\ LET r == S3DeleteResult(bucket, objectPaths, ok) IN
       /\ bucket' = r.bucket
       /\ rlast' = RCall("delete", objectPaths, "", r.err, "", r.n,
                         IF r.n = 0 THEN <<>> ELSE S3DeleteKeys(objectPaths))
    /\ PutLocalsGone
    /\ UNCHANGED <<localvars, backend, oss, pathvars, concvars>>

\* storageAlibabaOSS.Read
OSSReadResult(objectPath, ok) ==
    LET key == StoreKey(cleanOSSObjectPath(goos, objectPath)) IN
    IF ~ok
    THEN [val |-> "", err |-> ErrStore("GetObject")]
    ELSE IF key \notin S3Keys \/ ~oss[key].exists
    THEN [val |-> "", err |-> ErrNoSuchKey]
    ELSE [val |-> key, err |-> NoErr]

OSSRead(objectPath, ok) ==
    /\ LET r == OSSReadResult(objectPath, ok) IN
       rlast' = RCall("read", objectPath, "", r.err, r.val, 1,
                      <<cleanOSSObjectPath(goos, objectPath)>>)
    /\ UNCHANGED <<s3vars, localvars, backend, oss, pathvars, concvars>>

\* storageAlibabaOSS.TemporaryURL: SignURL is given objectPath as it was
\* passed; signing makes no call to the store
OSSTemporaryURLResult(objectPath) ==
    [val |-> <<"signed", objectPath>>, err |-> NoErr]

OSSTemporaryURL(objectPath) ==
    /\ LET r == OSSTemporaryURLResult(objectPath) IN
       rlast' = RCall("temporary-url", objectPath, "", r.err, r.val, 0,
                      <<objectPath>>)
    /\ UNCHANGED <<s3vars, localvars, backend, oss, pathvars, concvars>>

\* storageAlibabaOSS.Delete: one path is cleaned into DeleteObject's key;
\* with more, cleanedPaths is built and DeleteObjects is given objectPaths
OSSDeleteKeys(objectPaths) ==
    IF Len(objectPaths) = 1
    THEN <<cleanOSSObjectPath(goos, objectPaths[1])>>
    ELSE objectPaths

\* storageAlibabaOSS.Delete on a bucket b
OSSDeleteResult(b, objectPaths, ok) ==
    IF Len(objectPaths) = 0
    THEN [oss |-> b, err |-> NoErr, n |-> 0]
    ELSE IF ~ok
    THEN [oss |-> b,
          err |-> ErrStore(IF Len(objectPaths) = 1 THEN "DeleteObject" ELSE "DeleteObjects"),
          n |-> 1]
    ELSE [oss |-> [k \in S3Keys |->
                     IF k \in KeysNamed(OSSDeleteKeys(objectPaths))
                     THEN NoOSSObject ELSE b[k]],
          err |-> NoErr, n |-> 1]

OSSDelete(objectPaths, ok) ==
    /\ LET r == OSSDeleteResult(oss, objectPaths, ok) IN
       /\ oss' = r.oss
       /\ rlast' = RCall("delete", objectPaths, "", r.err, "", r.n,
                         IF r.n = 0 THEN <<>> ELSE OSSDeleteKeys(objectPaths))
    /\ UNCHANGED <<s3vars, localvars, backend, pathvars, concvars>>

----------------------------------------------------------------------------
(* Two Put calls on the same key whose steps interleave.  The local Put is  *)
(* taken apart into its system calls, the S3 Put into its calls to the      *)
(* store; no call fails for a reason of its own.                            *)

Procs == {1, 2}

\* the longest source of a concurrent Put
MaxConcLen == 2

\* bytes io.Copy hands to one Write (scaled from its 32 KiB buffer)
CopyBufferSize == 1

\* the source of caller p: n bytes that no other caller's source holds
SourceOf(p, n) == [i \in 1..n |-> 10 * p + i]

ErrNotExist == OsErr("ENOENT")
ErrExist == OsErr("EEXIST")

\* a caller about to call Put(key, source, visibility)
Caller(p, n, visibility) ==
    [pc |-> "start", src |-> SourceOf(p, n), vis |-> visibility, off |-> 0,
     parts |-> <<>>, ret |-> Running]

\* a Write of bytes at offset off of a file that holds data: the bytes
\* replace what was there, and a gap before them reads as zeros
WriteAt(data, off, bytes) ==
    [i \in 1..(IF Len(data) > off + Len(bytes) THEN Len(data) ELSE off + Len(bytes)) |->
        IF i > off /\ i <= off + Len(bytes) THEN bytes[i - off]
        ELSE IF i <= Len(data) THEN data[i]
        ELSE 0]

Returned(p, err) == [proc EXCEPT ![p].pc = "done", ![p].ret = err]

\* storageLocalFile.Put: checkAndCreateParentDirectory and os.Create, which
\* truncates the file and opens it at offset 0
ConcPutCreate(p) ==
    /\ backend = "local"
    /\ proc[p].pc = "start"
    /\ cfile' = File(<<>>)
    /\ proc' = [proc EXCEPT ![p].pc = "copy", ![p].off = 0]
    /\ UNCHANGED <<cpub, s3vars, localvars, remotevars, pathvars>>

\* io.Copy: one Read of the source and one Write at the caller's own offset
ConcPutCopy(p) ==
    /\ backend = "local"
    /\ proc[p].pc = "copy"
    /\ proc[p].off < Len(proc[p].src)
    /\ LET n == Min(CopyBufferSize, Len(proc[p].src) - proc[p].off)
           bytes == SubSeq(proc[p].src, proc[p].off + 1, proc[p].off + n)
       IN  /\ cfile' = File(WriteAt(cfile.data, proc[p].off, bytes))
           /\ proc' = [proc EXCEPT ![p].off = @ + n]
    /\ UNCHANGED <<cpub, s3vars, localvars, remotevars, pathvars>>

\* io.Copy returns at the end of the source; Put returns err, or goes on to
\* makeObjectPublic
ConcPutCopied(p) ==
    /\ backend = "local"
    /\ proc[p].pc = "copy"
    /\ proc[p].off = Len(proc[p].src)
    /\ proc' = IF IsPublic(proc[p].vis)
               THEN [proc EXCEPT ![p].pc = "check"]
               ELSE Returned(p, NoErr)
    /\ UNCHANGED <<cfile, cpub, s3vars, localvars, remotevars, pathvars>>

\* makeObjectPublic: isFileExists(publicPath)
ConcPutCheckPublic(p) ==
    /\ backend = "local"
    /\ proc[p].pc = "check"
    /\ proc' = [proc EXCEPT ![p].pc = IF isFileExists(cpub) THEN "remove" ELSE "link"]
    /\ UNCHANGED <<cfile, cpub, s3vars, localvars, remotevars, pathvars>>

\* makeObjectPublic: os.Remove(publicPath), an error when the entry is gone
ConcPutRemovePublic(p) ==
    /\ backend = "local"
    /\ proc[p].pc = "remove"
    /\ IF cpub.exists
       THEN /\ cpub' = NoEntry
            /\ proc' = [proc EXCEPT ![p].pc = "link"]
       ELSE /\ proc' = Returned(p, ErrNotExist)
            /\ UNCHANGED cpub
    /\ UNCHANGED <<cfile, s3vars, localvars, remotevars, pathvars>>

\* makeObjectPublic: os.Symlink or os.Link, an error when the entry is there
ConcPutLink(p) ==
    /\ backend = "local"
    /\ proc[p].pc = "link"
    /\ IF cpub.exists
       THEN /\ proc' = Returned(p, ErrExist)
            /\ UNCHANGED cpub
       ELSE /\ cpub' = IF goos = "linux" THEN Symlink ELSE Hardlink
            /\ proc' = Returned(p, NoErr)
    /\ UNCHANGED <<cfile, s3vars, localvars, remotevars, pathvars>>

\* storageS3.Put: CreateMultipartUpload opens a session of the caller's own
ConcS3Create(p) ==
    /\ backend = "s3"
    /\ proc[p].pc = "start"
    /\ proc' = [proc EXCEPT ![p].pc = "read", ![p].parts = <<>>]
    /\ UNCHANGED <<cfile, cpub, s3vars, localvars, remotevars, pathvars>>

\* storageS3.Put: a full Read of the source and the UploadPart of the chunk
\* into the caller's session
ConcS3UploadPart(p) ==
    /\ backend = "s3"
    /\ proc[p].pc = "read"
    /\ proc[p].off < Len(proc[p].src)
    /\ LET n == Min(s3PartSize, Len(proc[p].src) - proc[p].off) IN
       proc' = [proc EXCEPT
                  ![p].parts = Append(@, SubSeq(proc[p].src, proc[p].off + 1,
                                                proc[p].off + n)),
                  ![p].off = @ + n]
    /\ UNCHANGED <<cfile, cpub, s3vars, localvars, remotevars, pathvars>>

RECURSIVE Flatten(_)
Flatten(parts) == IF parts = <<>> THEN <<>> ELSE Head(parts) \o Flatten(Tail(parts))

\* storageS3.Put: CompleteMultipartUpload puts the session's parts under the
\* key; the store refuses a session with no part
ConcS3Complete(p) ==
    /\ backend = "s3"
    /\ proc[p].pc = "read"
    /\ proc[p].off = Len(proc[p].src)
    /\ IF proc[p].parts = <<>>
       THEN /\ proc' = Returned(p, ErrComplete)
            /\ UNCHANGED cfile
       ELSE /\ cfile' = File(Flatten(proc[p].parts))
            /\ proc' = Returned(p, NoErr)
    /\ UNCHANGED <<cpub, s3vars, localvars, remotevars, pathvars>>

\* no Put is being called
InitNoCallers ==
    /\ proc = [p \in Procs |-> [Caller(p, 0, ObjectPrivate) EXCEPT !.pc = "done", !.ret = NoErr]]
    /\ cfile = NoFile
    /\ cpub = NoEntry

NextConc ==
    \/ \E p \in Procs : ConcPutCreate(p)
    \/ \E p \in Procs : ConcPutCopy(p)
    \/ \E p \in Procs : ConcPutCopied(p)
    \/ \E p \in Procs : ConcPutCheckPublic(p)
    \/ \E p \in Procs : ConcPutRemovePublic(p)
    \/ \E p \in Procs : ConcPutLink(p)
    \/ \E p \in Procs : ConcS3Create(p)
    \/ \E p \in Procs : ConcS3UploadPart(p)
    \/ \E p \in Procs : ConcS3Complete(p)

----------------------------------------------------------------------------
(* Specifications *)

InitS3 ==
    /\ s3pc = "idle"
    /\ s3key = "a"
    /\ s3acl = ""
    /\ srcData = <<>>
    /\ srcPos = 0
    /\ chunk = <<>>
    /\ partNumber = 1
    /\ completedParts = <<>>
    /\ retry = 0
    /\ pendingErr = NoErr
    /\ putRet = NoErr
    /\ session = NoSession
    /\ bucket = [k \in S3Keys |-> NoObject]
    /\ calls = NoCalls

\* the local backend over two empty trees
InitLocal ==
    /\ priv = [k \in Keys |-> NoFile]
    /\ pub = [k \in Keys |-> NoEntry]
    /\ last = Call("new", "", "", "", NoErr, 0, 0)

\* no remote single-call operation was made yet
InitRemote ==
    /\ backend = "s3"
    /\ oss = [k \in S3Keys |-> NoOSSObject]
    /\ rlast = RCall("new", <<>>, "", NoErr, "", 0, <<>>)

Init == InitS3 /\ InitLocal /\ InitRemote /\ InitPath /\ InitNoCallers /\ goos = "linux"

InitOS ==
    /\ InitS3 /\ InitLocal /\ InitRemote /\ InitPath /\ InitNoCallers
    /\ goos \in {"linux", "windows"}

\* the argument lists of Delete: no path, one path, two paths
DeleteArgs == {<<>>} \cup {<<k>> : k \in Keys} \cup {<<k, l>> : k, l \in Keys}
DeleteFaults == {<<0, "none">>} \cup ((1..2) \X {"remove-pub", "remove-priv"})

NextLocal ==
    \/ \E k \in Keys, s \in Sources, v \in AnyVisibility :
          \E f \in PutFaults(v) : Put(k, s, v, f)
    \/ \E ps \in DeleteArgs, f \in DeleteFaults : Delete(ps, f)
    \/ \E a, b \in Keys, f \in CopyFaults, m \in 0..MaxFileLen : Copy(a, b, f, m)
    \/ \E k \in Keys \cup {EmptyPath} : URL(k)
    \/ \E k \in Keys : Exist(k)
    \/ \E k \in Keys : Read(k)
    \/ \E k \in Keys : Size(k)
    \/ \E k \in Keys, v \in AnyVisibility :
          \E f \in SetVisibilityFaults(v) : SetVisibility(k, v, f)
    \/ \E k \in Keys : GetVisibility(k)

SpecLocal == InitOS /\ [][NextLocal]_vars


NextS3 ==
    \/ \E k \in S3Keys, n \in 0..MaxLen, v \in AnyVisibility, ok \in BOOLEAN :
          S3PutStart(k, n, v, ok)
    \/ \E r \in ReadOutcomes(Len(srcData) - srcPos) : S3Read(r)
    \/ \E ok \in BOOLEAN : S3UploadPart(ok)
    \/ \E ok \in BOOLEAN : S3Abort(ok)
    \/ \E ok \in BOOLEAN : S3Complete(ok)

SpecS3 == Init /\ [][NextS3]_vars

\* one remote storage, S3 or OSS; the OSS bucket may hold an object that
\* was uploaded with no ACL of its own
InitStores ==
    /\ InitS3 /\ InitLocal /\ InitPath /\ InitNoCallers
    /\ goos = "linux"
    /\ backend \in {"s3", "oss"}
    /\ oss \in {[k \in S3Keys |-> NoOSSObject], [k \in S3Keys |-> OSSObject("default")]}
    /\ rlast = RCall("new", <<>>, "", NoErr, "", 0, <<>>)

NextOSS ==
    \/ \E p \in RemotePaths, v \in AnyVisibility, ok \in BOOLEAN : OSSPut(p, v, ok)
    \/ \E p \in RemotePaths, v \in AnyVisibility, ok \in BOOLEAN : OSSSetVisibility(p, v, ok)
    \/ \E p \in RemotePaths, ok \in BOOLEAN : OSSGetVisibility(p, ok)

NextS3Visibility ==
    \/ \E p \in RemotePaths, v \in AnyVisibility, ok \in BOOLEAN : S3SetVisibility(p, v, ok)
    \/ \E p \in RemotePaths, ok \in BOOLEAN : S3GetVisibility(p, ok)

NextS3Objects ==
    \/ \E p \in RemotePaths, ok \in BOOLEAN : S3ReadObject(p, ok)
    \/ \E p \in RemotePaths : S3TemporaryURL(p)
    \/ \E ps \in RemoteDeleteArgs, ok \in BOOLEAN : S3Delete(ps, ok)

NextOSSObjects ==
    \/ \E p \in RemotePaths, ok \in BOOLEAN : OSSRead(p, ok)
    \/ \E p \in RemotePaths : OSSTemporaryURL(p)
    \/ \E ps \in RemoteDeleteArgs, ok \in BOOLEAN : OSSDelete(ps, ok)

NextRemote ==
    \/ backend = "s3" /\ NextS3
    \/ backend = "s3" /\ NextS3Visibility
    \/ backend = "s3" /\ NextS3Objects
    \/ backend = "oss" /\ NextOSS
    \/ backend = "oss" /\ NextOSSObjects

SpecRemote == InitStores /\ [][NextRemote]_vars

\* two callers about to put to the same key of a local or an S3 storage;
\* the key may name an object of an earlier put, private or public
InitCallers ==
    /\ InitS3 /\ InitLocal /\ InitPath
    /\ oss = [k \in S3Keys |-> NoOSSObject]
    /\ rlast = RCall("new", <<>>, "", NoErr, "", 0, <<>>)
    /\ backend \in {"local", "s3"}
    /\ goos \in {"linux", "windows"}
    /\ proc \in {[p \in Procs |-> Caller(p, n[p], v[p])] :
                    n \in [Procs -> 0..MaxConcLen], v \in [Procs -> Visibilities]}
    /\ cfile \in {NoFile, File(<<>>)}
    /\ cpub \in {NoEntry} \cup (IF backend = "local" /\ cfile.exists
                                THEN {IF goos = "linux" THEN Symlink ELSE Hardlink}
                                ELSE {})

SpecConc == InitCallers /\ [][NextConc]_vars

\* object paths through each backend's cleaning, on either system
SpecPath == InitOS /\ [][NextPath]_vars

\* every backend in one process
Next ==
    NextS3 \/ NextLocal \/ NextPath \/ NextS3Visibility \/ NextOSS
       \/ NextS3Objects \/ NextOSSObjects \/ NextConc

Spec == Init /\ [][Next]_vars

----------------------------------------------------------------------------
(* Claims about the S3 multipart Put, checked under SpecS3 *)

Ceil(a, b) == (a + b - 1) \div b
PutReturned == s3pc = "idle" /\ putRet # Running
LastPart == completedParts[Len(completedParts)]

\* C1 (as claimed): a Put that returns no error stored exactly the bytes of
\* its source, in order: the object read back equals the source stream,
\* whatever lengths the reads of the source returned.
C1_PutThenReadYieldsSource ==
    (PutReturned /\ putRet = NoErr /\ session.state = "completed")
        => /\ bucket[s3key].exists
           /\ bucket[s3key].content = srcData

\* C4 (as claimed): when the loop of Put ends at the end of the source, it
\* has submitted exactly ceil(L/P) parts; every part but the last holds
\* exactly P bytes, the last 1..P bytes, and none is empty.
C4_PartCountAndSizes ==
    /\ \A i \in 1..Len(completedParts) :
          /\ Len(completedParts[i].ETag) \in 1..s3PartSize
          /\ (i < Len(completedParts) => Len(completedParts[i].ETag) = s3PartSize)
    /\ (s3pc = "complete" /\ calls.complete = 0)
          => Len(completedParts) = Ceil(Len(srcData), s3PartSize)

\* the Put gave up on a part: every attempt to submit it failed
GaveUpOnPart == pendingErr.kind = "upload-part"

\* C5 (as claimed): a part that fails twice and then succeeds is recorded and
\* Put goes on; a part that fails every time is attempted at most maxRetry
\* times, then the session is aborted, no completion call is issued, and Put
\* returns the error of the last failed submission.
C5_RetryThenLastUploadError ==
    /\ calls.attempts <= maxRetry
    /\ (PutReturned /\ GaveUpOnPart)
          => /\ calls.abort = 1
             /\ calls.complete = 0
             /\ putRet = ErrUploadPart(partNumber, maxRetry)

\* C5 (amended): as claimed, except that Put returns the abort call's error
\* when the abort call itself fails, and the error of the last failed
\* submission otherwise.
C5_RetryThenAbort ==
    /\ calls.attempts <= maxRetry
    /\ (s3pc = "upload") => calls.attempts = retry /\ retry < maxRetry
    \* an acknowledged part, also one that took three attempts, is recorded
    \* under its number and Put reads on
    /\ (s3pc = "read" /\ calls.attempts > 0)
          => /\ Len(completedParts) >= 1
             /\ LastPart = [ETag |-> chunk, PartNumber |-> partNumber - 1]
             /\ session.parts[partNumber - 1] = chunk
    /\ (s3pc = "abort" /\ GaveUpOnPart)
          => /\ calls.attempts = maxRetry
             /\ pendingErr = ErrUploadPart(partNumber, maxRetry)
             /\ calls.abort = 0 /\ calls.complete = 0
    /\ (PutReturned /\ GaveUpOnPart)
          => /\ calls.attempts = maxRetry
             /\ calls.abort = 1
             /\ calls.complete = 0
             /\ session.state # "completed"
             /\ putRet = IF session.state = "aborted"
                         THEN ErrUploadPart(partNumber, maxRetry)
                         ELSE ErrAbort

\* C5 witness: after an acknowledged first part, the second part failed three
\* times and the abort call failed as well.
C5_Witness ==
    /\ PutReturned /\ GaveUpOnPart
    /\ partNumber = 2 /\ Len(completedParts) = 1
    /\ calls.attempts = maxRetry
    /\ putRet = ErrAbort

\* C6 (as claimed): when a read of the source fails, an abort call is issued,
\* no completion call and no further part submission follow, and Put returns
\* the read error.
C6_ReadErrorReturned ==
    (PutReturned /\ pendingErr = ErrRead)
        => /\ calls.abort = 1
           /\ calls.complete = 0
           /\ ~calls.late
           /\ putRet = ErrRead

\* C6 (amended): as claimed, except that Put returns the abort call's error
\* when the abort call itself fails, and the read error otherwise.
C6_ReadErrorAborts ==
    /\ (s3pc = "abort" /\ pendingErr = ErrRead)
          => calls.abort = 0 /\ calls.complete = 0
    /\ (PutReturned /\ pendingErr = ErrRead)
          => /\ calls.abort = 1
             /\ calls.complete = 0
             /\ ~calls.late
             /\ session.state # "completed"
             /\ putRet = IF session.state = "aborted" THEN ErrRead ELSE ErrAbort

\* C6 witness: the read failed after a part was acknowledged, and the abort
\* call failed.
C6_Witness ==
    /\ PutReturned /\ pendingErr = ErrRead
    /\ Len(completedParts) >= 1
    /\ putRet = ErrAbort

----------------------------------------------------------------------------
(* Claims about the local backend, checked under SpecLocal *)

Found == [val |-> TRUE, err |-> NoErr]
NotFound == [val |-> FALSE, err |-> NoErr]
PutOk == last.op = "put" /\ last.err = NoErr
DeleteOk == last.op = "delete" /\ last.err = NoErr
CopyOk == last.op = "copy" /\ last.err = NoErr

\* exist is false on a new storage, true after a successful put, false for
\* every listed key after a successful delete
ExistAfterPutAndDelete ==
    /\ last.op = "new" => \A k \in Keys : ExistResult(k) = NotFound
    /\ PutOk => ExistResult(last.key) = Found
    /\ DeleteOk => \A i \in 1..Len(last.val) : ExistResult(last.val[i]) = NotFound

C3_CopyYieldsSourceContent ==
    /\ [](CopyOk => /\ ExistResult(last.key2) = Found
                    /\ ReadResult(last.key2) = [val |-> last.val.data, err |-> NoErr])
    /\ [][\A b \in Keys :
            (/\ last' # last
             /\ \/ last'.op = "put" /\ last'.key # b
                \/ last'.op = "delete" /\ ~InPaths(b, last'.val))
               => ReadResult(b)' = ReadResult(b)]_vars

\* C7 (as claimed): a put with a public visibility whose source fails while
\* it is read returns an error and leaves no public entry at the key.
C7_FailedSourceIsAnError ==
    (last.op = "put" /\ IsPublic(last.vis) /\ last.val)
        => /\ last.err # NoErr
           /\ ~pub[last.key].exists

\* C8: for an existing object, set-visibility(public-read or
\* public-read-write), then set-visibility(private), then get-visibility:
\* after the second call the key has no public entry, and the third returns
\* private with no error.
C8_PublicThenPrivate ==
    /\ last.chain >= 2 => ~pub[last.key].exists
    /\ last.chain = 2 => GetVisibilityResult(last.key) = [val |-> ObjectPrivate, err |-> NoErr]
    /\ last.chain = 3 => last.val = ObjectPrivate /\ last.err = NoErr

\* C8 witness: the three calls were made, the second one removed an entry
\* the first had created.
C8_Witness ==
    /\ last.chain = 3
    /\ last.op = "get-visibility"
    /\ last.val = ObjectPrivate
    /\ priv[last.key].exists

\* what url is claimed to return for a key, given the public tree
URLAsClaimed(k) ==
    IF k \in Keys /\ pub[k].exists
    THEN [val |-> JoinURL(publicBaseURL, k), err |-> NoErr]
    ELSE [val |-> <<>>, err |-> Err("not-found", 0, 0)]

URLLeavesTrees == (last'.op = "url" /\ last' # last) => UNCHANGED <<priv, pub>>

\* C9 (as claimed): url returns a not-found error whenever the key has no
\* public entry and the public base URL joined with the key whenever it has
\* one; url creates and removes no entry.
C9_URLNeedsPublicEntry ==
    /\ [](last.op = "url" => [val |-> last.val, err |-> last.err] = URLAsClaimed(last.key))
    /\ [][URLLeavesTrees]_vars

\* C9 (amended): for every key other than the empty path (for which url
\* returns an empty string and no error), url returns a not-found error
\* whenever the key has no public entry and the public base URL joined with
\* the key whenever it has one; url creates and removes no entry.
C9_URLOfNonEmptyKey ==
    /\ []((last.op = "url" /\ last.key # EmptyPath)
             => [val |-> last.val, err |-> last.err] = URLAsClaimed(last.key))
    /\ []((last.op = "url" /\ last.key = EmptyPath)
             => last.val = <<>> /\ last.err = NoErr)
    /\ [][URLLeavesTrees]_vars

\* C9 witness: url of a key that has a public entry returned the joined URL.
C9_Witness ==
    /\ last.op = "url"
    /\ last.key = "a"
    /\ pub["a"].exists /\ priv["a"].exists
    /\ last.val = <<publicBaseURL, "/", "a">>
    /\ last.err = NoErr

\* C10 (as claimed): every key with a public entry has a private entry that
\* the public entry links to.
C10_PublicEntryHasPrivateTarget ==
    \A k \in Keys : pub[k].exists => priv[k].exists /\ LinksTo(priv, pub, k)

----------------------------------------------------------------------------
(* Claims about object paths, checked under SpecPath *)

\* a cleaned key climbs when its first element is ".."
Climbs(key) ==
    \/ key = <<".", ".">>
    \/ Len(key) >= 3 /\ SubSeq(key, 1, 3) = <<".", ".", "/">>

\* a file path is under dir when it is dir or continues it after a separator
Under(dir, filePath) ==
    \/ filePath = dir
    \/ /\ Len(filePath) > Len(dir) + 1
       /\ SubSeq(filePath, 1, Len(dir) + 1) = Append(dir, "/")

\* C11 (as claimed): for every relative objectPath, also with leading or
\* embedded ".." elements, the key a remote backend sends has no ".." that
\* climbs above the bucket's root, and the file path the local backend
\* addresses stays under its base directory.
C11_KeyStaysUnderRoot ==
    /\ pathOut.fn \in {"cleanS3ObjectPath", "cleanOSSObjectPath"} => ~Climbs(pathOut.at)
    /\ pathOut.fn = "filepath.Join" => Under(baseDir, pathOut.at)

----------------------------------------------------------------------------
(* Claims about the remote backends, checked under SpecRemote *)

\* what get-visibility returns for objectPath when the store answers
RemoteGetVisibility(objectPath) ==
    IF backend = "s3"
    THEN S3GetVisibilityResult(objectPath, TRUE)
    ELSE OSSGetVisibilityResult(objectPath, TRUE)

Returns(v) == [val |-> v, err |-> NoErr]

\* the visibility a multipart Put translated into its acl
VisibilityOfPut == CHOOSE v \in Visibilities : getS3ACLOrError(v).acl = s3acl

\* C12 (as claimed): in each remote backend, after a successful
\* set-visibility(key, v) or put(key, ..., v) with v one of the three
\* visibilities, get-visibility(key) returns v and no error; and a
\* get-visibility that returns no error returns one of the three
\* visibilities, never an empty one.
C12_VisibilityRoundTrip ==
    /\ []((rlast.op \in {"set-visibility", "put"} /\ rlast.vis \in Visibilities
              /\ rlast.err = NoErr)
            => RemoteGetVisibility(rlast.path) = Returns(rlast.vis))
    /\ []((rlast.op = "get-visibility" /\ rlast.err = NoErr)
            => rlast.val \in Visibilities)
    /\ [][(putRet = Running /\ putRet' = NoErr)
            => S3GetVisibilityResult(<<s3key>>, TRUE)' = Returns(VisibilityOfPut)]_vars

\* the multipart Put was the last call and its visibility did not translate
S3PutOfUnknownVisibility == backend = "s3" /\ rlast = LastIsPut /\ s3acl = ""

OSSPutOfUnknownVisibility ==
    backend = "oss" /\ rlast.op = "put" /\ rlast.vis \notin Visibilities

\* C13: a remote put with a visibility that is none of the three returns the
\* invalid-visibility error, and it has opened no upload session, read
\* nothing of the source, made no call to the store and left the bucket as
\* it was.
C13_UnknownVisibilityRejectedFirst ==
    /\ [](S3PutOfUnknownVisibility
            => /\ putRet = ErrInvalidVisibility
               /\ s3pc = "idle"
               /\ session = NoSession
               /\ calls = NoCalls
               /\ srcPos = 0 /\ chunk = <<>> /\ completedParts = <<>>)
    /\ [](OSSPutOfUnknownVisibility
            => rlast.err = ErrInvalidVisibility /\ rlast.n = 0)
    /\ [][(S3PutOfUnknownVisibility' \/ OSSPutOfUnknownVisibility')
            => UNCHANGED <<bucket, oss>>]_vars

\* C13 witness: a put with an unknown visibility returned, on a bucket that
\* holds an object from an earlier put.
C13_Witness ==
    /\ S3PutOfUnknownVisibility
    /\ putRet = ErrInvalidVisibility
    /\ srcData # <<>>
    /\ bucket["a"].exists

----------------------------------------------------------------------------
(* Claims about the states of the multipart session, checked under SpecS3 *)

SessionOpened == session.state # "none"
TerminalCalls == calls.abort + calls.complete
PutRunning == s3pc \in {"read", "upload", "abort", "complete"}

\* C14: a multipart Put that opened a session goes Initiated -> Uploading ->
\* Completed | Aborted: while it runs no terminal call (completion or abort)
\* has been issued, when it returns exactly one has been, never both; no
\* part is submitted after a terminal call; a failed completion call returns
\* its error and no abort call is issued; and a session that is completed or
\* aborted changes only when another Put starts.
C14_OneTerminalCall ==
    /\ [](/\ PutRunning => SessionOpened /\ session.state = "open" /\ TerminalCalls = 0
          /\ (PutReturned /\ SessionOpened) => TerminalCalls = 1
          /\ ~calls.late
          /\ session.state = "completed" => calls.complete = 1 /\ calls.abort = 0
          /\ session.state = "aborted" => calls.abort = 1 /\ calls.complete = 0
          /\ (PutReturned /\ calls.complete = 1 /\ session.state # "completed")
                => putRet = ErrComplete /\ calls.abort = 0 /\ session.state = "open")
    /\ [][(session.state \in {"completed", "aborted"} /\ session' # session)
            => s3pc = "idle" /\ calls' = NoCalls]_vars

\* C14 witness: the completion call failed after two parts were
\* acknowledged, and Put returned its error.
C14_Witness ==
    /\ PutReturned /\ SessionOpened
    /\ Len(completedParts) = 2
    /\ calls.complete = 1
    /\ putRet = ErrComplete

\* C15: at every point of a multipart Put the list completedParts holds only
\* parts the store acknowledged, its i-th entry carries part number i, the
\* next number is one more than the list's length (a retried chunk keeps its
\* number, a failed attempt takes none), and the completion call carries this
\* list, in this order.
C15_CompletedPartsInOrder ==
    /\ [](SessionOpened =>
            /\ partNumber = Len(completedParts) + 1
            /\ \A i \in 1..Len(completedParts) :
                  /\ completedParts[i].PartNumber = i
                  /\ session.state # "aborted"
                        => /\ i \in DOMAIN session.parts
                           /\ session.parts[i] = completedParts[i].ETag
            /\ calls.complete = 1 => calls.sent = completedParts)
    /\ [][/\ (s3pc = "upload" /\ retry' = retry + 1)
               => UNCHANGED <<partNumber, completedParts>>
          /\ (s3pc # "idle" /\ completedParts' # completedParts)
               => /\ s3pc = "upload"
                  /\ completedParts' = Append(completedParts,
                         [ETag |-> chunk, PartNumber |-> partNumber])
                  /\ partNumber' = partNumber + 1
                  /\ partNumber \in DOMAIN session'.parts
          /\ (s3pc = "complete" /\ bucket' # bucket)
               => bucket'[s3key].content = ConcatParts(session.parts, calls'.sent)]_vars

\* C15 witness: the second part was acknowledged at its third attempt and
\* the completion call carried both parts.
C15_Witness ==
    /\ PutReturned /\ putRet = NoErr
    /\ calls.attempts = maxRetry
    /\ calls.complete = 1
    /\ Len(calls.sent) = 2
    /\ calls.sent[2].PartNumber = 2

\* the abort call was issued and failed: the session is still open
AbortFailed == calls.abort = 1 /\ session.state = "open"

\* C16: an abort call is issued only after a failed read of the source or
\* after the retries of a part are used up; when the abort call itself
\* fails, Put returns the abort's error, never success.
C16_FailedAbortIsReturned ==
    /\ [](/\ s3pc = "abort" => pendingErr = ErrRead \/ GaveUpOnPart
          /\ calls.abort > 0 => pendingErr = ErrRead \/ GaveUpOnPart
          /\ (PutReturned /\ AbortFailed)
                => putRet = ErrAbort /\ putRet # NoErr)
    /\ [][(s3pc = "abort" /\ s3pc' = "idle" /\ session'.state # "aborted")
            => putRet' = ErrAbort]_vars

\* C16 witness: the first read of the source failed, the abort call failed
\* too, and Put returned the abort's error.
C16_Witness ==
    /\ PutReturned /\ AbortFailed
    /\ pendingErr = ErrRead
    /\ completedParts = <<>>
    /\ putRet = ErrAbort

----------------------------------------------------------------------------
(* Claims about the two trees of the local backend, checked under SpecLocal *)

NotFoundError == [val |-> "", err |-> Err("not-found", 0, 0)]

\* what get-visibility is claimed to return for a key, given the two trees
VisibilityAsClaimed(k) ==
    IF pub[k].exists THEN Returns(ObjectPublicRead)
    ELSE IF priv[k].exists THEN Returns(ObjectPrivate)
    ELSE NotFoundError

\* C17: get-visibility returns public-read whenever the key has a public
\* entry, also after a successful put or set-visibility with
\* public-read-write; private when the key has a private entry only; an
\* object-not-found error when it has neither; and never public-read-write.
C17_GetVisibilityFromTrees ==
    /\ last.op = "get-visibility"
          => /\ [val |-> last.val, err |-> last.err] = VisibilityAsClaimed(last.key)
             /\ last.val # ObjectPublicReadWrite
    /\ (last.op \in {"put", "set-visibility"} /\ IsPublic(last.vis) /\ last.err = NoErr)
          => GetVisibilityResult(last.key) = Returns(ObjectPublicRead)
    /\ \A k \in Keys : GetVisibilityResult(k).val # ObjectPublicReadWrite

\* C17 witness: get-visibility returned public-read for a key that has both
\* entries.
C17_Witness ==
    /\ last.op = "get-visibility"
    /\ last.val = ObjectPublicRead /\ last.err = NoErr
    /\ pub[last.key].exists /\ priv[last.key].exists

\* C18: after a delete that returns no error no listed key has an entry in
\* either tree; a delete whose removals all succeed returns no error, also
\* for keys absent from one tree or from both; keys not listed keep their
\* entries.
C18_DeleteClearsBothTrees ==
    /\ [](/\ DeleteOk => \A i \in 1..Len(last.val) :
                           ~priv[last.val[i]].exists /\ ~pub[last.val[i]].exists
          /\ \A ps \in DeleteArgs : DeleteResult(ps, <<0, "none">>).err = NoErr)
    /\ [][last'.op = "delete"
            => \A k \in Keys : ~InPaths(k, last'.val)
                                  => priv'[k] = priv[k] /\ pub'[k] = pub[k]]_vars

\* C18 witness: a delete of two keys returned no error; one had a private
\* entry only, the other had both.
C18_Witness ==
    /\ DeleteOk
    /\ last.val = <<"a", "b">>
    /\ last.had = [priv |-> {"a", "b"}, pub |-> {"b"}]
    /\ \A k \in Keys : ~priv[k].exists /\ ~pub[k].exists

\* C19 (as claimed): after a successful copy(src, dst) the destination is
\* private: it has no public entry and get-visibility(dst) returns private,
\* whatever src's visibility and whatever dst was before.
C19_CopyDestinationIsPrivate ==
    CopyOk => /\ ~pub[last.key2].exists
              /\ GetVisibilityResult(last.key2) = Returns(ObjectPrivate)

\* C20: set-visibility, to private or to a public value, successful or not,
\* leaves the private tree as it was: exist, read and size return for every
\* key what they returned before.  With a visibility that is none of the
\* three it returns an error and changes neither tree.
C20_SetVisibilityKeepsPrivateTree ==
    /\ [](last.op = "set-visibility" /\ last.vis \notin Visibilities
            => last.err = ErrInvalidVisibility)
    /\ [][last'.op = "set-visibility"
            => /\ \A k \in Keys : /\ ExistResult(k)' = ExistResult(k)
                                  /\ ReadResult(k)' = ReadResult(k)
                                  /\ SizeResult(k)' = SizeResult(k)
               /\ priv' = priv
               /\ last'.vis \notin Visibilities => pub' = pub]_vars

\* C20 witness: set-visibility(private) removed the hard link of an object
\* that has content.
C20_Witness ==
    /\ last.op = "set-visibility" /\ last.vis = ObjectPrivate /\ last.err = NoErr
    /\ goos = "windows"
    /\ last.had.pub = {last.key}
    /\ ~pub[last.key].exists
    /\ priv[last.key].exists /\ priv[last.key].data # <<>>

----------------------------------------------------------------------------
(* Claims about the keys the remote backends send, checked under SpecRemote *)

\* the backend's path normalizer
Normalized(objectPath) ==
    IF backend = "s3"
    THEN cleanS3ObjectPath(goos, objectPath)
    ELSE cleanOSSObjectPath(goos, objectPath)

\* the bucket holds an object under the key objectPath normalizes to
HoldsObject(objectPath) ==
    LET k == StoreKey(Normalized(objectPath)) IN
    k \in S3Keys /\ (IF backend = "s3" THEN bucket[k].exists ELSE oss[k].exists)

\* the bucket after Delete(objectPaths) with the store answering
AfterDelete(b, objectPaths) ==
    IF backend = "s3"
    THEN S3DeleteResult(b, objectPaths, TRUE).bucket
    ELSE OSSDeleteResult(b, objectPaths, TRUE).oss

TheBucket == IF backend = "s3" THEN bucket ELSE oss

\* C21 (as claimed): every operation of a remote backend sends the store
\* the normalized form of each objectPath it was given; a delete of two or
\* more paths removes what the single-path deletes of the same paths remove;
\* get-visibility and temporary-url send the key read sends for the path.
C21_EveryKeyIsNormalized ==
    /\ (rlast.op \in {"read", "get-visibility", "set-visibility", "temporary-url"}
           /\ rlast.sent # <<>>)
          => rlast.sent = <<Normalized(rlast.path)>>
    /\ (rlast.op = "put" /\ rlast.sent # <<>>)
          => rlast.sent = <<Normalized(rlast.path)>>
    /\ (rlast.op = "delete" /\ rlast.sent # <<>>)
          => /\ rlast.sent = [i \in 1..Len(rlast.path) |-> Normalized(rlast.path[i])]
             /\ rlast.err = NoErr
                   => \A i \in 1..Len(rlast.path) : ~HoldsObject(rlast.path[i])
             /\ (rlast.err = NoErr /\ Len(rlast.path) = 2)
                   => TheBucket = AfterDelete(AfterDelete(TheBucket, <<rlast.path[1]>>),
                                              <<rlast.path[2]>>)

----------------------------------------------------------------------------
(* Claims about overlapping calls, checked under SpecConc *)

BothReturned == \A p \in Procs : proc[p].pc = "done"

\* C22 (as claimed): when two Put calls on the same key overlap, whatever
\* the interleaving of their steps, once both have returned the object holds
\* the whole content of one of the two sources, never a mixture; in the
\* local backend both calls return no error and a public entry has its
\* private file.
C22_LastWriterWins ==
    BothReturned
       => /\ (\E p \in Procs : proc[p].ret = NoErr)
                => /\ cfile.exists
                   /\ \E p \in Procs : cfile.data = proc[p].src
          /\ backend = "local"
                => /\ \A p \in Procs : proc[p].ret = NoErr
                   /\ cpub.exists => cfile.exists

----------------------------------------------------------------------------
(* Claim about the visibility a local Put leaves, checked under SpecLocal *)

PrivatePutOk == PutOk /\ last.vis = ObjectPrivate /\ last.key \in Keys

\* C23 (as claimed): in the local backend, whatever operations came before,
\* a successful put of a key with private visibility leaves the object
\* private: get-visibility of the key returns private and url of the key
\* returns not-found, also when the key had a public entry before the put.
C23_PrivatePutIsPrivate ==
    PrivatePutOk
       => /\ GetVisibilityResult(last.key) = Returns(ObjectPrivate)
          /\ URLResult(last.key).err = Err("not-found", 0, 0)

====
